---- MODULE Spec2Model ----
(***************************************************************************)
(* State-machine model of src/script.js (note-selector): the denomination  *)
(* catalog, the selection set, the BTC/USD rate (remote fetch and manual   *)
(* input), the QR image preload, the copy button and the startup sequence. *)
(*                                                                         *)
(* One state of the model is the program between two event-loop tasks: an  *)
(* action is one whole handler (or one resumed async function up to its    *)
(* next await), including every call it makes.                             *)
(***************************************************************************)
EXTENDS Integers, Sequences, FiniteSets, TLC

VARIABLES
    pc,                     \* position of initializeApp
    denominations,          \* const denominations (script.js:286)
    selectedDenominations,  \* the JS Set, as its insertion-ordered element list
    totalAmount,            \* let totalAmount (script.js:7)
    btcUsdRate,             \* let btcUsdRate (script.js:8), a JS value
    qrImages,               \* the qrImages cache (script.js:9): key -> file index of the image
    imgState,               \* per image request: "idle" | "pending" | "loaded" | "error"
    preloadAll,             \* state of the Promise.all of preloadQRImages
    refreshCalls,           \* refresh handlers suspended at each await of fetchBtcPrice
    priceInput,             \* value of the #btcPrice input, a list of characters
    toast,                  \* the #toast / #toastMessage elements
    toastTimers,            \* pending 3 s hide timers of showToast
    dom,                    \* the elements written by updateTotal
    lastSet,                \* history: value supplied by the latest successful set of the rate
    copy                    \* copyToClipboard: the copy button and the writes in flight

vars == <<pc, denominations, selectedDenominations, totalAmount, btcUsdRate,
          qrImages, imgState, preloadAll, refreshCalls, priceInput, toast,
          toastTimers, dom, lastSet, copy>>

----------------------------------------------------------------------------
(* Program constants *)

MAX_SELECTIONS == 4

MIN_POWER == 10

MAX_POWER == 29

MAX_QR_INDEX == 4

(* Bounds of the model *)

\* how many of the 20 buttons the user clicks in the selection scenario:
\* the cheapest NumButtons - 1 and the most expensive one
NumButtons == 5

\* refresh clicks whose fetchBtcPrice is in flight at the same time, and
\* copy clicks whose clipboard write is in flight at the same time
MaxInFlight == 2

\* pending hide timers of showToast, and pending reset timers of the copy button
MaxTimers == 1

----------------------------------------------------------------------------
(* JS values.  Numbers are kept in thousandths (n = 1000 * the number).    *)

JSNull      == [t |-> "null",      n |-> 0, s |-> <<>>]
JSUndefined == [t |-> "undefined", n |-> 0, s |-> <<>>]
JSNaN       == [t |-> "NaN",       n |-> 0, s |-> <<>>]
JSInfinity  == [t |-> "Infinity",  n |-> 0, s |-> <<>>]
JSNegInfinity == [t |-> "-Infinity", n |-> 0, s |-> <<>>]
JSTrue      == [t |-> "boolean",   n |-> 1, s |-> <<>>]
JSFalse     == [t |-> "boolean",   n |-> 0, s |-> <<>>]
JSNum(k)    == [t |-> "number",    n |-> k, s |-> <<>>]
JSStr(cs)   == [t |-> "string",    n |-> 0, s |-> cs]

\* typeof v === 'number'
IsNumber(v) == v.t \in {"number", "NaN", "Infinity", "-Infinity"}

\* v > 0 for a JS number
GreaterThanZero(v) == \/ v.t = "Infinity"
                      \/ v.t = "number" /\ v.n > 0

\* isNaN(v) for a JS number
isNaN(v) == v.t = "NaN"

\* v.toFixed exists only on numbers: null/undefined throw on the property
\* access, a string has no such method
HasToFixed(v) == IsNumber(v)

----------------------------------------------------------------------------
(* Text: a string is the list of its characters. *)

DigitChars == <<"0", "1", "2", "3", "4", "5", "6", "7", "8", "9">>

IsDigit(c) == \E i \in 1..10 : DigitChars[i] = c

DigitVal(c) == (CHOOSE i \in 1..10 : DigitChars[i] = c) - 1

IsWhiteSpace(c) == c \in {" ", "\t", "\n"}

RECURSIVE TrimStart(_)
TrimStart(cs) ==
    IF cs # <<>> /\ IsWhiteSpace(Head(cs)) THEN TrimStart(Tail(cs)) ELSE cs

\* length of the longest prefix of cs made of digits
RECURSIVE DigitRun(_)
DigitRun(cs) ==
    IF cs # <<>> /\ IsDigit(Head(cs)) THEN 1 + DigitRun(Tail(cs)) ELSE 0

\* value of a list of digits
RECURSIVE DigitsValue(_)
DigitsValue(ds) ==
    IF ds = <<>> THEN 0
    ELSE 10 * DigitsValue(SubSeq(ds, 1, Len(ds) - 1)) + DigitVal(ds[Len(ds)])

\* decimal digits of a natural number
RECURSIVE NatToText(_)
NatToText(k) ==
    IF k < 10 THEN <<DigitChars[k + 1]>>
    ELSE NatToText(k \div 10) \o <<DigitChars[(k % 10) + 1]>>

InfinityText == <<"I", "n", "f", "i", "n", "i", "t", "y">>

StartsWith(cs, p) == Len(cs) >= Len(p) /\ SubSeq(cs, 1, Len(p)) = p

\* thousandths denoted by up to three fraction digits (further digits are
\* below the resolution of the model and are dropped)
FractionThousandths(ds) ==
    LET d3 == SubSeq(ds \o <<"0", "0", "0">>, 1, 3) IN DigitsValue(d3)

\* parseFloat on the unsigned rest of the text: the longest prefix that is a
\* StrUnsignedDecimalLiteral, else NaN.  Exponent parts are not parsed: no
\* text the environment supplies below has an 'e' after its digits.
ParseUnsigned(cs) ==
    IF StartsWith(cs, InfinityText) THEN JSInfinity
    ELSE LET ni   == DigitRun(cs)
             rest == SubSeq(cs, ni + 1, Len(cs))
             dot  == rest # <<>> /\ Head(rest) = "."
             nf   == IF dot THEN DigitRun(Tail(rest)) ELSE 0
             ip   == DigitsValue(SubSeq(cs, 1, ni))
             fp   == IF nf > 0 THEN FractionThousandths(SubSeq(Tail(rest), 1, nf)) ELSE 0
         IN  IF ni = 0 /\ nf = 0 THEN JSNaN ELSE JSNum(1000 * ip + fp)

Negate(v) == IF v.t = "number" THEN JSNum(0 - v.n)
             ELSE IF v.t = "Infinity" THEN JSNegInfinity
             ELSE v

\* parseFloat(text)
parseFloat(text) ==
    LET cs == TrimStart(text) IN
    IF cs = <<>> THEN JSNaN
    ELSE IF Head(cs) = "-" THEN Negate(ParseUnsigned(Tail(cs)))
    ELSE IF Head(cs) = "+" THEN ParseUnsigned(Tail(cs))
    ELSE ParseUnsigned(cs)

\* Number.prototype.toFixed(2): the nearest multiple of 0.01, the larger in
\* magnitude of two equally near.  (A double is rarely exactly halfway; no
\* rate the environment supplies below has 5 as its third decimal.)
toFixed2(v) ==
    IF v.t = "NaN" THEN <<"N", "a", "N">>
    ELSE IF v.t = "Infinity" THEN InfinityText
    ELSE IF v.t = "-Infinity" THEN <<"-">> \o InfinityText
    ELSE LET a  == IF v.n < 0 THEN 0 - v.n ELSE v.n
             h  == (a + 5) \div 10
             fr == h % 100
         IN  (IF v.n < 0 THEN <<"-">> ELSE <<>>)
             \o NatToText(h \div 100) \o <<".">>
             \o <<DigitChars[(fr \div 10) + 1], DigitChars[(fr % 10) + 1]>>

----------------------------------------------------------------------------
(* The JS Set selectedDenominations: Set keeps insertion order and holds   *)
(* no value twice; it is modelled by the list Array.from(set) returns.     *)

SetHas(set, value) == \E i \in 1..Len(set) : set[i] = value

SetAdd(set, value) == IF SetHas(set, value) THEN set ELSE Append(set, value)

\* faulty variant of SetDelete: drops the element added last, whatever the value
SetDeleteLast(set, value) == SubSeq(set, 1, Len(set) - 1)

SetDelete(set, value) == SelectSeq(set, LAMBDA x : x # value)

SetSize(set) == Len(set)

Members(set) == {set[i] : i \in 1..Len(set)}

\* Array.prototype.reduce((sum, value) => sum + value, 0)
RECURSIVE ReduceSum(_, _)
ReduceSum(arr, sum) ==
    IF arr = <<>> THEN sum ELSE ReduceSum(Tail(arr), sum + Head(arr))

\* insert x into the ascending list arr, after every element e with e - x <= 0
RECURSIVE InsertAsc(_, _)
InsertAsc(arr, x) ==
    IF arr = <<>> THEN <<x>>
    ELSE IF Head(arr) - x > 0 THEN <<x>> \o arr
    ELSE <<Head(arr)>> \o InsertAsc(Tail(arr), x)

\* faulty variant of SortAsc: the array is joined as Array.from returns it
SortOmitted(arr) == arr

\* Array.prototype.sort((a, b) => a - b)
RECURSIVE SortAsc(_)
SortAsc(arr) ==
    IF arr = <<>> THEN <<>>
    ELSE InsertAsc(SortAsc(SubSeq(arr, 1, Len(arr) - 1)), arr[Len(arr)])

\* Array.prototype.join(',') of an array of non-negative integers
RECURSIVE Join(_)
Join(arr) ==
    IF arr = <<>> THEN <<>>
    ELSE IF Len(arr) = 1 THEN NatToText(arr[1])
    ELSE NatToText(Head(arr)) \o <<",">> \o Join(Tail(arr))

----------------------------------------------------------------------------
(* formatAmount.  Amounts are integers 0 <= msat < 2^31.  The multiplier   *)
(* of a prefix is 10^exp; 10^12 and 10^15 do not fit the integers of the   *)
(* checker and are above every msat.                                       *)

\* faulty variant of SI_PREFIXES: the table has no 'k' row
SI_PREFIXES_NoKilo ==
    << [prefix |-> "",  exp |-> 0,  symbol |-> <<"m", "s", "a", "t">>],
       [prefix |-> "",  exp |-> 3,  symbol |-> <<"s", "a", "t">>],
       [prefix |-> "M", exp |-> 9,  symbol |-> <<"M", "s", "a", "t">>],
       [prefix |-> "G", exp |-> 12, symbol |-> <<"G", "s", "a", "t">>],
       [prefix |-> "T", exp |-> 15, symbol |-> <<"T", "s", "a", "t">>] >>

SI_PREFIXES ==
    << [prefix |-> "",  exp |-> 0,  symbol |-> <<"m", "s", "a", "t">>],
       [prefix |-> "",  exp |-> 3,  symbol |-> <<"s", "a", "t">>],
       [prefix |-> "k", exp |-> 6,  symbol |-> <<"k", "s", "a", "t">>],
       [prefix |-> "M", exp |-> 9,  symbol |-> <<"M", "s", "a", "t">>],
       [prefix |-> "G", exp |-> 12, symbol |-> <<"G", "s", "a", "t">>],
       [prefix |-> "T", exp |-> 15, symbol |-> <<"T", "s", "a", "t">>] >>

\* msat >= 10^exp
AtLeastMultiplier(msat, exp) == exp <= 9 /\ msat >= 10 ^ exp

\* faulty variant of PrefixLoop: the loop runs from the first prefix up and
\* stops at the first multiplier msat reaches
PrefixLoopAscending(msat, i) ==
    LET reached == {k \in 1..i : AtLeastMultiplier(msat, SI_PREFIXES[k].exp)}
    IN  IF reached = {} THEN SI_PREFIXES[1]
        ELSE SI_PREFIXES[CHOOSE k \in reached : \A k2 \in reached : k <= k2]

\* the loop of formatAmount from index i (1-based) down: the first prefix
\* whose multiplier msat reaches, SI_PREFIXES[0] if there is none
RECURSIVE PrefixLoop(_, _)
PrefixLoop(msat, i) ==
    IF i < 1 THEN SI_PREFIXES[1]
    ELSE IF AtLeastMultiplier(msat, SI_PREFIXES[i].exp) THEN SI_PREFIXES[i]
    ELSE PrefixLoop(msat, i - 1)

Zeros(k) == [j \in 1..k |-> "0"]

\* (msat / 10^exp).toPrecision(3).  With d the number of digits of msat, the
\* value is n * 10^(e - 2) rounded, e = d - 1 - exp, n the three leading
\* digits of msat rounded on the rest, the larger of two equally near n.
\* (A double is rarely exactly halfway, and a multiple of 2^10 below 2^31
\* never is.)  Exponent notation is used for e < -6 and e >= 3.
toPrecision3(msat, exp) ==
    IF msat = 0 THEN <<"0", ".", "0", "0">>
    ELSE LET d    == Len(NatToText(msat))
             unit == IF d > 3 THEN 10 ^ (d - 3) ELSE 1
             n0   == IF d > 3
                     THEN (msat \div unit) + (IF 2 * (msat % unit) >= unit THEN 1 ELSE 0)
                     ELSE msat * 10 ^ (3 - d)
             n    == IF n0 = 1000 THEN 100 ELSE n0
             e    == (d - 1 - exp) + (IF n0 = 1000 THEN 1 ELSE 0)
             ds   == NatToText(n)
         IN  IF e < 0 - 6 \/ e >= 3
             THEN <<ds[1], ".", ds[2], ds[3], "e">>
                  \o (IF e < 0 THEN <<"-">> \o NatToText(0 - e) ELSE <<"+">> \o NatToText(e))
             ELSE IF e = 2 THEN ds
             ELSE IF e >= 0 THEN SubSeq(ds, 1, e + 1) \o <<".">> \o SubSeq(ds, e + 2, 3)
             ELSE <<"0", ".">> \o Zeros(0 - e - 1) \o ds

\* formatAmount(msat): `${value.toPrecision(3)} ${prefix.symbol}`
formatAmount(msat) ==
    LET prefix == PrefixLoop(msat, Len(SI_PREFIXES))
    IN  toPrecision3(msat, prefix.exp) \o <<" ">> \o prefix.symbol

----------------------------------------------------------------------------
(* generateDenominations *)

RECURSIVE GenLoop(_, _)
GenLoop(i, acc) ==
    IF i <= MAX_POWER
    THEN GenLoop(i + 1, Append(acc, [value |-> 2 ^ i, display |-> formatAmount(2 ^ i),
                                     power |-> i]))
    ELSE acc

\* faulty variant of generateDenominations: the loop stops at i < 29
generateDenominationsExclusive ==
    SubSeq(GenLoop(MIN_POWER, <<>>), 1, MAX_POWER - MIN_POWER)

generateDenominations == GenLoop(MIN_POWER, <<>>)

\* faulty variant of ButtonValue: the listener is bound to the exponent
ButtonValuePower(denomination) == denomination.power

\* the value createDenominationButton binds to the click listener of a button
ButtonValue(denomination) == denomination.value

----------------------------------------------------------------------------
(* showToast, updateTotal, updateQRCode: each returns the elements it      *)
(* writes.                                                                 *)

showToast(message, type) == [message |-> message, type |-> type, show |-> TRUE]

\* truthiness of a JS value, as used by `btcUsdRate` in a condition
Truthy(v) ==
    CASE v.t \in {"null", "undefined", "NaN"} -> FALSE
      [] v.t = "number"  -> v.n # 0
      [] v.t = "string"  -> v.s # <<>>
      [] v.t = "boolean" -> v.n = 1
      [] OTHER           -> TRUE

----------------------------------------------------------------------------
(* msatToUsd and formatUsd.  The product msat / 1e11 * rate is kept exact: *)
(* a rate is n thousandths, so the product is msat * n in units of         *)
(* 10^-(BTC_MSAT_DIGITS + 3) dollars.  It does not fit the integers of the *)
(* checker and is kept as a list of five base-10^4 digits, lowest first.   *)

\* 100000000000 = 10^11 msat per BTC
BTC_MSAT_DIGITS == 11

Base == 10000

\* the base-10^4 digits of x, 0 <= x < 10^12
Limbs(x) == <<x % Base, (x \div Base) % Base, x \div (Base * Base)>>

\* the five digits of the product of x and y, column by column with carry
BigMul(x, y) ==
    LET a  == Limbs(x)
        b  == Limbs(y)
        c1 == a[1] * b[1]
        c2 == a[1] * b[2] + a[2] * b[1] + c1 \div Base
        c3 == a[1] * b[3] + a[2] * b[2] + a[3] * b[1] + c2 \div Base
        c4 == a[2] * b[3] + a[3] * b[2] + c3 \div Base
        c5 == a[3] * b[3] + c4 \div Base
    IN  <<c1 % Base, c2 % Base, c3 % Base, c4 % Base, c5 % Base>>

UsdNull == [t |-> "null", neg |-> FALSE, limbs |-> <<>>, scale |-> 0]

UsdNaN == [t |-> "NaN", neg |-> FALSE, limbs |-> <<>>, scale |-> 0]

UsdInfinity(neg) == [t |-> "Infinity", neg |-> neg, limbs |-> <<>>, scale |-> 0]

\* the number a JS value is converted to as an operand of `*`.  Of strings
\* only runs of digits and texts that are no numeral are told apart: the
\* endpoint supplies no other string.
ToNumber(v) ==
    CASE v.t = "number"    -> v
      [] v.t = "boolean"   -> JSNum(1000 * v.n)
      [] v.t = "null"      -> JSNum(0)
      [] v.t = "Infinity"  -> v
      [] v.t = "-Infinity" -> v
      [] v.t = "string"    -> IF v.s = <<>> THEN JSNum(0)
                              ELSE IF DigitRun(v.s) = Len(v.s)
                              THEN JSNum(1000 * DigitsValue(v.s))
                              ELSE JSNaN
      [] OTHER             -> JSNaN

\* msatToUsd(msat) with btcUsdRate = rate, for an integer msat >= 0
msatToUsd(msat, rate) ==
    IF ~Truthy(rate) THEN UsdNull
    ELSE LET r == ToNumber(rate) IN
         CASE r.t = "number" ->
                  [t |-> "number", neg |-> r.n < 0,
                   limbs |-> BigMul(msat, IF r.n < 0 THEN 0 - r.n ELSE r.n),
                   scale |-> BTC_MSAT_DIGITS + 3]
           [] r.t \in {"Infinity", "-Infinity"} ->
                  IF msat = 0 THEN UsdNaN ELSE UsdInfinity(r.t = "-Infinity")
           [] OTHER -> UsdNaN

\* the digits of a from position i up, as an integer
RECURSIVE LimbsFrom(_, _)
LimbsFrom(a, i) == IF i > Len(a) THEN 0 ELSE a[i] + Base * LimbsFrom(a, i + 1)

\* usd rounded to cents, the larger of two equally near (see toFixed2)
Cents(usd) ==
    LET k     == (usd.scale - 2) \div 4
        r     == (usd.scale - 2) % 4
        whole == LimbsFrom(usd.limbs, k + 1)
        unit  == 10 ^ r
    IN  IF r = 0
        THEN whole + (IF usd.limbs[k] >= Base \div 2 THEN 1 ELSE 0)
        ELSE (whole \div unit)
             + (IF 2 * (whole % unit) >= unit THEN 1 ELSE 0)

\* formatUsd(usd): `$${usd.toFixed(2)}`
formatUsd(usd) ==
    <<"$">> \o
    (CASE usd.t = "NaN"      -> <<"N", "a", "N">>
       [] usd.t = "Infinity" -> (IF usd.neg THEN <<"-">> ELSE <<>>) \o InfinityText
       [] OTHER ->
            LET c == Cents(usd) IN
            (IF usd.neg /\ \E i \in 1..Len(usd.limbs) : usd.limbs[i] # 0
             THEN <<"-">> ELSE <<>>)
            \o NatToText(c \div 100) \o <<".">>
            \o <<DigitChars[((c % 100) \div 10) + 1], DigitChars[(c % 10) + 1]>>)

\* the total updateTotal stores
SumOfSelection(set) == ReduceSum(set, 0)

\* the part of the DOM updateTotal writes, given the selection and the rate;
\* msatValues is the array sortedValues, msatText the value of the export field
updateTotalDom(d, set, rate) ==
    LET total == SumOfSelection(set)
        usd   == msatToUsd(total, rate)
        shown == SetSize(set) > 0 /\ Truthy(rate) /\ usd # UsdNull
        empty == SetSize(set) = 0
        text  == IF empty THEN <<>> ELSE SortAsc(set)
    IN  [d EXCEPT
           !.totalText     = formatAmount(total),
           !.selectedCount = SetSize(set),
           !.usdAmount     = IF shown THEN formatUsd(usd) ELSE @,
           !.usdDisplay    = IF shown THEN "block" ELSE "none",
           !.msatValues    = text,
           !.msatText      = Join(text),
           !.placeholder   = IF empty THEN "No denominations selected" ELSE "",
           !.copyButton    = IF empty THEN "disabled" ELSE "enabled"]

Min(a, b) == IF a < b THEN a ELSE b

\* faulty variant of updateQRCodeDom: the fallback path counts files from 1
updateQRCodeDomFromOne(d, set, cache) ==
    LET count    == SetSize(set)
        qrNumber == Min(count, MAX_QR_INDEX)
    IN  [d EXCEPT
           !.qrSrc  = IF qrNumber \in DOMAIN cache
                      THEN [key |-> qrNumber, from |-> "cache", file |-> cache[qrNumber]]
                      ELSE [key |-> qrNumber, from |-> "path",  file |-> qrNumber + 1],
           !.qrInfo = count]

\* the part of the DOM updateQRCode writes.  An image reference is the file
\* index i of example_notes/ecash_000<i>.png it denotes: qrImages[k].src is
\* the URL of the file image k was requested from, the fallback is the path
\* built from qrNumber.
updateQRCodeDom(d, set, cache) ==
    LET count    == SetSize(set)
        qrNumber == Min(count, MAX_QR_INDEX)
    IN  [d EXCEPT
           !.qrSrc  = IF qrNumber \in DOMAIN cache
                      THEN [key |-> qrNumber, from |-> "cache", file |-> cache[qrNumber]]
                      ELSE [key |-> qrNumber, from |-> "path",  file |-> qrNumber],
           !.qrInfo = count]

----------------------------------------------------------------------------
(* toggleDenomination(value, button) on the state st = [set, total, dom,   *)
(* toast, timers]; the result says whether the limit rejected the call.    *)

\* the state after an accepted toggle that leaves the selection set2
Toggled(st, set2, rate, cache) ==
    [st EXCEPT !.set = set2, !.total = SumOfSelection(set2),
               !.dom = updateQRCodeDom(updateTotalDom(st.dom, set2, rate), set2, cache),
               !.rejected = FALSE]

\* the state after a toggle the limit rejected
Rejected(st) ==
    [st EXCEPT !.toast = showToast("You can only select up to 4 denominations.", "warning"),
               !.timers = st.timers + 1,
               !.rejected = TRUE]

\* faulty variant of toggleDenomination: the limit test is `size > MAX_SELECTIONS`
toggleDenominationGt(st, value, rate, cache) ==
    IF SetHas(st.set, value) THEN Toggled(st, SetDelete(st.set, value), rate, cache)
    ELSE IF SetSize(st.set) > MAX_SELECTIONS THEN Rejected(st)
    ELSE Toggled(st, SetAdd(st.set, value), rate, cache)

\* faulty variant of toggleDenomination: the `return` after showToast is missing
toggleDenominationNoReturn(st, value, rate, cache) ==
    IF SetHas(st.set, value) THEN Toggled(st, SetDelete(st.set, value), rate, cache)
    ELSE IF SetSize(st.set) >= MAX_SELECTIONS
    THEN [Toggled(Rejected(st), SetAdd(st.set, value), rate, cache) EXCEPT !.rejected = TRUE]
    ELSE Toggled(st, SetAdd(st.set, value), rate, cache)

\* faulty variant of toggleDenomination: updateTotal() runs before the set changes
toggleDenominationStaleTotal(st, value, rate, cache) ==
    IF SetHas(st.set, value)
    THEN [Toggled(st, SetDelete(st.set, value), rate, cache)
            EXCEPT !.total = SumOfSelection(st.set)]
    ELSE IF SetSize(st.set) >= MAX_SELECTIONS THEN Rejected(st)
    ELSE [Toggled(st, SetAdd(st.set, value), rate, cache)
            EXCEPT !.total = SumOfSelection(st.set)]

toggleDenomination(st, value, rate, cache) ==
    IF SetHas(st.set, value) THEN Toggled(st, SetDelete(st.set, value), rate, cache)
    ELSE IF SetSize(st.set) >= MAX_SELECTIONS THEN Rejected(st)
    ELSE Toggled(st, SetAdd(st.set, value), rate, cache)

\* the current state, as toggleDenomination takes it
Cur == [set |-> selectedDenominations, total |-> totalAmount, dom |-> dom,
        toast |-> toast, timers |-> toastTimers, rejected |-> FALSE]

----------------------------------------------------------------------------
(* The rate provider.                                                      *)

\* What the two awaits of fetchBtcPrice can produce.  A body that parses is
\* described by how far the path data.prices['BTC/USD'].rate exists:
\*   "null"      data is null                  (data.prices throws)
\*   "noPrices"  data has no prices            (prices['BTC/USD'] throws)
\*   "noPair"    prices has no 'BTC/USD'       (.rate throws)
\*   "pair"      the pair exists; rate is its rate field, undefined if missing
Body(shape, rate) == [shape |-> shape, rate |-> rate]

\* lines 82-91 of fetchBtcPrice, run after response.json() resolved with
\* data: the rate and the input field it leaves, what it returns, and
\* whether the catch block ran
fetchBtcPriceTail(data, rate, input) ==
    IF data.shape # "pair"
    THEN [rate |-> rate, input |-> input, ret |-> JSNull, caught |-> TRUE]
    ELSE IF HasToFixed(data.rate)
    THEN [rate |-> data.rate, input |-> toFixed2(data.rate),
          ret |-> data.rate, caught |-> FALSE]
    ELSE [rate |-> data.rate, input |-> input, ret |-> JSNull, caught |-> TRUE]

\* fetchBtcPrice when fetch() or response.json() rejects: the catch block
fetchBtcPriceCatch(rate, input) ==
    [rate |-> rate, input |-> input, ret |-> JSNull, caught |-> TRUE]

\* faulty variant of updateBtcPriceFromInput: the validity test is missing
updateBtcPriceFromInputNoCheck(text, rate) ==
    [rate |-> parseFloat(text), refreshed |-> TRUE, ret |-> JSUndefined]

\* updateBtcPriceFromInput with the text of the input field: the rate it
\* leaves, whether it refreshed the display, and what it returns
updateBtcPriceFromInput(text, rate) ==
    LET newPrice == parseFloat(text) IN
    IF ~isNaN(newPrice) /\ GreaterThanZero(newPrice)
    THEN [rate |-> newPrice, refreshed |-> TRUE,  ret |-> JSUndefined]
    ELSE [rate |-> rate,     refreshed |-> FALSE, ret |-> JSUndefined]

\* history of the rate: the value supplied by the latest successful set
NoSet == [t |-> "none", n |-> 0, s |-> <<>>]

----------------------------------------------------------------------------
(* Inputs of the environment.                                              *)

\* texts typed into the price field
Text45000  == <<"4", "5", "0", "0", "0">>
TextAbc    == <<"a", "b", "c">>
TextZero   == <<"0">>
TextNeg    == <<"-", "5">>
TextMixed  == <<" ", "1", ".", "5", "k", "b">>
TextInf    == InfinityText

AllTexts == {Text45000, TextAbc, TextZero, TextNeg, TextMixed, TextInf}

\* bodies the price endpoint may answer with (rates in thousandths)
GoodBody == Body("pair", JSNum(2004))

AllBodies == {Body("null", JSUndefined), Body("noPrices", JSUndefined),
              Body("noPair", JSUndefined), Body("pair", JSUndefined),
              Body("pair", JSNull), Body("pair", JSStr(TextAbc)),
              GoodBody, Body("pair", JSNum(0)), Body("pair", JSNum(0 - 1000))}

ImageKeys == 0..MAX_QR_INDEX

\* indexes (in denominations) of the buttons the user clicks
ClickedButtons == (1..(NumButtons - 1)) \cup {MAX_POWER - MIN_POWER + 1}

----------------------------------------------------------------------------
(* Initial state: the script has been evaluated, DOMContentLoaded has not  *)
(* fired.  Elements not yet written by the script hold their HTML content. *)

\* the elements as the page's HTML gives them
HtmlDom ==
    [totalText |-> <<>>, selectedCount |-> -1, usdAmount |-> <<>>,
     usdDisplay |-> "html", msatValues |-> <<>>, msatText |-> <<>>,
     placeholder |-> "html", copyButton |-> "html",
     qrSrc |-> [key |-> -1, from |-> "html", file |-> -1], qrInfo |-> -1]

Init ==
    /\ pc = "loading"
    /\ denominations = <<>>
    /\ selectedDenominations = <<>>
    /\ totalAmount = 0
    /\ btcUsdRate = JSNull
    /\ qrImages = [k \in {} |-> 0]
    /\ imgState = [i \in ImageKeys |-> "idle"]
    /\ preloadAll = "none"
    /\ refreshCalls = [fetch |-> 0, json |-> 0]
    /\ priceInput = <<>>
    /\ toast = [message |-> "", type |-> "", show |-> FALSE]
    /\ toastTimers = 0
    /\ dom = HtmlDom
    /\ lastSet = NoSet
    /\ copy = [api |-> "unknown", pending |-> 0, label |-> "html", timers |-> 0,
               settled |-> "none", legacy |-> FALSE, uncaught |-> FALSE]

\* the listeners of initializeApp are registered (lines 298-316 have run)
Listening == pc \in {"awaitFetch", "awaitJson", "done"}

----------------------------------------------------------------------------
(* Startup: initializeApp and preloadQRImages.                             *)

\* DOMContentLoaded: initializeApp runs to `await preloadQRImages()`
DOMContentLoaded ==
    /\ pc = "loading"
    /\ pc' = "preload"
    /\ denominations' = generateDenominations
    /\ imgState' = [i \in ImageKeys |-> "pending"]
    /\ preloadAll' = "pending"
    /\ UNCHANGED <<copy, selectedDenominations, totalAmount, btcUsdRate, qrImages,
                   refreshCalls, priceInput, toast, toastTimers, dom, lastSet>>

\* faulty variant of PromiseAll: settles only when every request has (as
\* Promise.allSettled followed by a check would)
PromiseAllWaits(img) ==
    IF \E i \in ImageKeys : img[i] = "pending" THEN "pending"
    ELSE IF \E i \in ImageKeys : img[i] = "error" THEN "rejected"
    ELSE "fulfilled"

\* Promise.all after the image events have left the requests in state img
PromiseAll(img) ==
    IF \E i \in ImageKeys : img[i] = "error" THEN "rejected"
    ELSE IF \A i \in ImageKeys : img[i] = "loaded" THEN "fulfilled"
    ELSE "pending"

\* faulty variant of ResumeAfterPreload: the await is not inside a try, so a
\* rejected aggregate ends initializeApp
ResumeAfterPreloadNoCatch(all) ==
    IF pc = "preload" /\ all = "fulfilled" THEN "awaitFetch" ELSE pc

\* initializeApp resumes after the await of the preload once the aggregate
\* has settled either way, and runs to the await inside fetchBtcPrice
ResumeAfterPreload(all) ==
    IF pc = "preload" /\ all # "pending" THEN "awaitFetch" ELSE pc

\* img.onload of image i
ImgLoad(i) ==
    /\ imgState[i] = "pending"
    /\ imgState' = [imgState EXCEPT ![i] = "loaded"]
    /\ qrImages' = [k \in DOMAIN qrImages \cup {i} |-> IF k = i THEN i ELSE qrImages[k]]
    /\ preloadAll' = IF preloadAll = "pending" THEN PromiseAll(imgState') ELSE preloadAll
    /\ pc' = ResumeAfterPreload(preloadAll')
    /\ UNCHANGED <<copy, denominations, selectedDenominations, totalAmount, btcUsdRate,
                   refreshCalls, priceInput, toast, toastTimers, dom, lastSet>>

\* img.onerror of image i
ImgError(i) ==
    /\ imgState[i] = "pending"
    /\ imgState' = [imgState EXCEPT ![i] = "error"]
    /\ preloadAll' = IF preloadAll = "pending" THEN PromiseAll(imgState') ELSE preloadAll
    /\ pc' = ResumeAfterPreload(preloadAll')
    /\ UNCHANGED <<copy, denominations, selectedDenominations, totalAmount, btcUsdRate,
                   qrImages, refreshCalls, priceInput, toast, toastTimers, dom, lastSet>>

\* the image events arrive in the order of the requests
InOrder(i) == \A j \in ImageKeys : j < i => imgState[j] # "pending"

----------------------------------------------------------------------------
(* User events.                                                            *)

\* click on the button of denominations[b]
Click(b) ==
    /\ Listening
    /\ LET r == toggleDenomination(Cur, ButtonValue(denominations[b]), btcUsdRate, qrImages) IN
       /\ r.timers <= MaxTimers
       /\ selectedDenominations' = r.set
       /\ totalAmount' = r.total
       /\ dom' = r.dom
       /\ toast' = r.toast
       /\ toastTimers' = r.timers
    /\ UNCHANGED <<copy, pc, denominations, btcUsdRate, qrImages, imgState, preloadAll,
                   refreshCalls, priceInput, lastSet>>

\* the 3 s timer of a showToast fires
ToastTimeout ==
    /\ toastTimers > 0
    /\ toastTimers' = toastTimers - 1
    /\ toast' = [toast EXCEPT !.show = FALSE]
    /\ UNCHANGED <<copy, pc, denominations, selectedDenominations, totalAmount, btcUsdRate,
                   qrImages, imgState, preloadAll, refreshCalls, priceInput, dom, lastSet>>

\* the handler of 'input' and 'blur' on the price field, the field holding text
PriceHandler(text) ==
    LET r == updateBtcPriceFromInput(text, btcUsdRate) IN
    /\ priceInput' = text
    /\ btcUsdRate' = r.rate
    /\ totalAmount' = IF r.refreshed THEN SumOfSelection(selectedDenominations) ELSE totalAmount
    /\ dom' = IF r.refreshed THEN updateTotalDom(dom, selectedDenominations, r.rate) ELSE dom
    /\ lastSet' = IF r.refreshed THEN r.rate ELSE lastSet
    /\ UNCHANGED <<copy, pc, denominations, selectedDenominations, qrImages, imgState,
                   preloadAll, refreshCalls, toast, toastTimers>>

\* the user edits the price field to text: 'input' fires
InputPrice(text) == Listening /\ PriceHandler(text)

\* the price field loses focus: 'blur' fires with the text it holds
BlurPrice == Listening /\ PriceHandler(priceInput)

\* click on refresh: the handler runs to the first await of fetchBtcPrice
ClickRefresh ==
    /\ Listening
    /\ refreshCalls.fetch + refreshCalls.json < MaxInFlight
    /\ refreshCalls' = [refreshCalls EXCEPT !.fetch = @ + 1]
    /\ UNCHANGED <<copy, pc, denominations, selectedDenominations, totalAmount, btcUsdRate,
                   qrImages, imgState, preloadAll, priceInput, toast, toastTimers,
                   dom, lastSet>>

----------------------------------------------------------------------------
(* copyToClipboard.  navigator.clipboard is there or not for the whole     *)
(* run; copy.api is "unknown" until the first call looks at it.            *)

\* the feedback both paths of copyToClipboard give: the button reads
\* 'Copied!' until a 2 s timer resets it
copyFeedback(c) == [c EXCEPT !.label = "Copied!", !.timers = @ + 1]

\* copyToClipboard up to its return, the export field holding value and
\* navigator.clipboard being api: nothing for an empty field; otherwise
\* navigator.clipboard.writeText(value) is called, which throws a TypeError
\* out of the handler when navigator.clipboard is undefined
copyToClipboard(c, value, api) ==
    IF value = <<>> THEN c
    ELSE IF api = "missing" THEN [c EXCEPT !.api = api, !.uncaught = TRUE]
    ELSE [c EXCEPT !.api = api, !.pending = @ + 1]

\* click on the copy button (a disabled button dispatches no click)
ClickCopy(api) ==
    /\ Listening
    /\ dom.copyButton # "disabled"
    /\ copy.api \in {"unknown", api}
    /\ copy' = copyToClipboard(copy, dom.msatText, api)
    /\ copy'.pending <= MaxInFlight
    /\ UNCHANGED <<pc, denominations, selectedDenominations, totalAmount, btcUsdRate,
                   qrImages, imgState, preloadAll, refreshCalls, priceInput, toast,
                   toastTimers, dom, lastSet>>

\* a writeText promise settles: fulfilled runs the .then callback, rejected
\* runs the .catch callback, which selects the field and calls
\* document.execCommand('copy') (its result is not looked at); both show
\* the feedback and the success toast
ClipboardWriteSettles(how) ==
    /\ copy.pending > 0
    /\ copy.timers < MaxTimers + 1
    /\ toastTimers < MaxTimers + 1
    /\ copy' = [copyFeedback(copy) EXCEPT
                   !.pending = @ - 1,
                   !.settled = how,
                   !.legacy  = IF how = "rejected" THEN TRUE ELSE @]
    /\ toast' = showToast("Values copied to clipboard!", "success")
    /\ toastTimers' = toastTimers + 1
    /\ UNCHANGED <<pc, denominations, selectedDenominations, totalAmount, btcUsdRate,
                   qrImages, imgState, preloadAll, refreshCalls, priceInput, dom, lastSet>>

\* the 2 s timer of a copy feedback fires
CopyButtonTimeout ==
    /\ copy.timers > 0
    /\ copy' = [copy EXCEPT !.timers = @ - 1, !.label = "Copy"]
    /\ UNCHANGED <<pc, denominations, selectedDenominations, totalAmount, btcUsdRate,
                   qrImages, imgState, preloadAll, refreshCalls, priceInput, toast,
                   toastTimers, dom, lastSet>>

----------------------------------------------------------------------------
(* Completions of the price fetch.                                         *)

\* faulty variant of FetchReturns: the caller starts its render from a new,
\* empty selection
FetchReturnsResets(r, startup) ==
    /\ btcUsdRate' = r.rate
    /\ priceInput' = r.input
    /\ lastSet' = IF r.caught THEN lastSet ELSE r.ret
    /\ selectedDenominations' = <<>>
    /\ totalAmount' = 0
    /\ dom' = LET d == updateTotalDom(dom, <<>>, r.rate) IN
              IF startup THEN updateQRCodeDom(d, <<>>, qrImages) ELSE d
    /\ UNCHANGED <<copy, denominations, qrImages, imgState, preloadAll, toast,
                   toastTimers>>

\* fetchBtcPrice has returned result r to the refresh handler (startup =
\* FALSE), which calls updateTotal(), or to initializeApp (startup = TRUE),
\* which calls updateTotal() and updateQRCode()
FetchReturns(r, startup) ==
    /\ btcUsdRate' = r.rate
    /\ priceInput' = r.input
    /\ lastSet' = IF r.caught THEN lastSet ELSE r.ret
    /\ totalAmount' = SumOfSelection(selectedDenominations)
    /\ dom' = LET d == updateTotalDom(dom, selectedDenominations, r.rate) IN
              IF startup THEN updateQRCodeDom(d, selectedDenominations, qrImages) ELSE d
    /\ UNCHANGED <<copy, denominations, selectedDenominations, qrImages, imgState,
                   preloadAll, toast, toastTimers>>

\* fetch() of the startup call resolves: fetchBtcPrice goes on to response.json()
StartupFetchResolves ==
    /\ pc = "awaitFetch"
    /\ pc' = "awaitJson"
    /\ UNCHANGED <<copy, denominations, selectedDenominations, totalAmount, btcUsdRate,
                   qrImages, imgState, preloadAll, refreshCalls, priceInput, toast,
                   toastTimers, dom, lastSet>>

\* fetch() or response.json() of the startup call rejects
StartupFetchFails ==
    /\ pc \in {"awaitFetch", "awaitJson"}
    /\ pc' = "done"
    /\ FetchReturns(fetchBtcPriceCatch(btcUsdRate, priceInput), TRUE)
    /\ UNCHANGED refreshCalls

\* response.json() of the startup call resolves with data
StartupJsonResolves(data) ==
    /\ pc = "awaitJson"
    /\ pc' = "done"
    /\ FetchReturns(fetchBtcPriceTail(data, btcUsdRate, priceInput), TRUE)
    /\ UNCHANGED refreshCalls

\* fetch() of a refresh call resolves
RefreshFetchResolves ==
    /\ refreshCalls.fetch > 0
    /\ refreshCalls' = [fetch |-> refreshCalls.fetch - 1, json |-> refreshCalls.json + 1]
    /\ UNCHANGED <<copy, pc, denominations, selectedDenominations, totalAmount, btcUsdRate,
                   qrImages, imgState, preloadAll, priceInput, toast, toastTimers,
                   dom, lastSet>>

\* fetch() (atJson = FALSE) or response.json() (atJson = TRUE) of a refresh
\* call rejects
RefreshFetchFails(atJson) ==
    /\ IF atJson THEN refreshCalls.json > 0 ELSE refreshCalls.fetch > 0
    /\ refreshCalls' = IF atJson THEN [refreshCalls EXCEPT !.json = @ - 1]
                                 ELSE [refreshCalls EXCEPT !.fetch = @ - 1]
    /\ FetchReturns(fetchBtcPriceCatch(btcUsdRate, priceInput), FALSE)
    /\ UNCHANGED pc

\* response.json() of a refresh call resolves with data
RefreshJsonResolves(data) ==
    /\ refreshCalls.json > 0
    /\ refreshCalls' = [refreshCalls EXCEPT !.json = @ - 1]
    /\ FetchReturns(fetchBtcPriceTail(data, btcUsdRate, priceInput), FALSE)
    /\ UNCHANGED pc

----------------------------------------------------------------------------
(* Specifications.  Every one runs the whole program; they differ in the   *)
(* inputs the environment draws from.                                      *)

\* Spec: the selection scenario.  The user clicks NumButtons buttons and
\* sets the price field to one text, and does not click refresh; the
\* endpoint fails or answers GoodBody to the startup fetch; image events
\* arrive in request order and only the last image may fail.
Next ==
    \/ DOMContentLoaded
    \/ \E i \in ImageKeys : InOrder(i) /\ ImgLoad(i)
    \/ InOrder(MAX_QR_INDEX) /\ ImgError(MAX_QR_INDEX)
    \/ \E b \in ClickedButtons : Click(b)
    \/ ToastTimeout
    \/ InputPrice(Text45000)
    \/ BlurPrice
    \/ StartupFetchResolves
    \/ StartupFetchFails
    \/ StartupJsonResolves(GoodBody)

Spec == Init /\ [][Next]_vars

\* SpecRate: the rate scenario.  The user clicks one button, sets the
\* price field to any of AllTexts and clicks refresh, with up to MaxInFlight
\* calls in flight; the endpoint fails or answers any of AllBodies; image
\* events as in Spec.
NextRate ==
    \/ DOMContentLoaded
    \/ \E i \in ImageKeys : InOrder(i) /\ ImgLoad(i)
    \/ InOrder(MAX_QR_INDEX) /\ ImgError(MAX_QR_INDEX)
    \/ Click(1)
    \/ \E text \in AllTexts : InputPrice(text)
    \/ BlurPrice
    \/ ClickRefresh
    \/ StartupFetchResolves
    \/ StartupFetchFails
    \/ \E data \in AllBodies : StartupJsonResolves(data)
    \/ RefreshFetchResolves
    \/ \E atJson \in BOOLEAN : RefreshFetchFails(atJson)
    \/ \E data \in AllBodies : RefreshJsonResolves(data)

SpecRate == Init /\ [][NextRate]_vars

\* SpecNumeric: the rate scenario with a well-formed endpoint: every body
\* carries a numeric rate field.
NumericBodies == {GoodBody, Body("pair", JSNum(0)), Body("pair", JSNum(0 - 1000))}

NextNumeric ==
    \/ DOMContentLoaded
    \/ \E i \in ImageKeys : InOrder(i) /\ ImgLoad(i)
    \/ InOrder(MAX_QR_INDEX) /\ ImgError(MAX_QR_INDEX)
    \/ Click(1)
    \/ \E text \in {Text45000, TextAbc, TextMixed} : InputPrice(text)
    \/ BlurPrice
    \/ ClickRefresh
    \/ StartupFetchResolves
    \/ StartupFetchFails
    \/ \E data \in NumericBodies : StartupJsonResolves(data)
    \/ RefreshFetchResolves
    \/ \E atJson \in BOOLEAN : RefreshFetchFails(atJson)
    \/ \E data \in NumericBodies : RefreshJsonResolves(data)

SpecNumeric == Init /\ [][NextNumeric]_vars

\* SpecImg: the image scenario.  The image events arrive in any order and any
\* image may fail, also after the aggregate has settled.  The user works
\* through the first MAX_SELECTIONS + 1 buttons in turn: selects the next
\* button, deselects the one selected last, or tries one more when the
\* selection is full; the price field is set to one text; the endpoint fails
\* or answers GoodBody to the startup fetch.
InTurn(b) ==
    LET n == SetSize(selectedDenominations) IN
    \/ b = n + 1
    \/ b = n /\ n > 0

NextImg ==
    \/ DOMContentLoaded
    \/ \E i \in ImageKeys : ImgLoad(i)
    \/ \E i \in ImageKeys : ImgError(i)
    \/ \E b \in 1..(MAX_SELECTIONS + 1) : InTurn(b) /\ Click(b)
    \/ ToastTimeout
    \/ InputPrice(Text45000)
    \/ StartupFetchResolves
    \/ StartupFetchFails
    \/ StartupJsonResolves(GoodBody)

SpecImg == Init /\ [][NextImg]_vars

\* SpecCopy: the copy scenario.  The user clicks two buttons and the copy
\* button; navigator.clipboard is or is not there, and its writes are
\* fulfilled or rejected; the startup fetch fails or answers GoodBody; image
\* events as in Spec.
NextCopy ==
    \/ DOMContentLoaded
    \/ \E i \in ImageKeys : InOrder(i) /\ ImgLoad(i)
    \/ InOrder(MAX_QR_INDEX) /\ ImgError(MAX_QR_INDEX)
    \/ \E b \in 1..2 : Click(b)
    \/ \E api \in {"available", "missing"} : ClickCopy(api)
    \/ \E how \in {"fulfilled", "rejected"} : ClipboardWriteSettles(how)
    \/ CopyButtonTimeout
    \/ ToastTimeout
    \/ StartupFetchResolves
    \/ StartupFetchFails
    \/ StartupJsonResolves(GoodBody)

SpecCopy == Init /\ [][NextCopy]_vars

\* SpecFormat: the formatting scenario, for formatAmount over every
\* selection.  It starts where the program is once all images have loaded,
\* the startup fetch has failed and the user has selected, in ascending
\* order, any at most MAX_SELECTIONS of the 20 denominations; from there the
\* user deselects and sets the price field, each of which runs updateTotal.
AscendingSelections ==
    UNION { { [i \in 1..k |-> 2 ^ g[i]] :
                g \in {f \in [1..k -> MIN_POWER..MAX_POWER] :
                          \A i \in 1..(k - 1) : f[i] < f[i + 1]} } :
            k \in 0..MAX_SELECTIONS }

InitSelected ==
    /\ pc = "done"
    /\ denominations = generateDenominations
    /\ selectedDenominations \in AscendingSelections
    /\ totalAmount = SumOfSelection(selectedDenominations)
    /\ btcUsdRate = JSNull
    /\ qrImages = [k \in ImageKeys |-> k]
    /\ imgState = [i \in ImageKeys |-> "loaded"]
    /\ preloadAll = "fulfilled"
    /\ refreshCalls = [fetch |-> 0, json |-> 0]
    /\ priceInput = <<>>
    /\ toast = [message |-> "", type |-> "", show |-> FALSE]
    /\ toastTimers = 0
    /\ dom = updateQRCodeDom(updateTotalDom(HtmlDom, selectedDenominations, JSNull),
                             selectedDenominations, qrImages)
    /\ lastSet = NoSet
    /\ copy = [api |-> "unknown", pending |-> 0, label |-> "html", timers |-> 0,
               settled |-> "none", legacy |-> FALSE, uncaught |-> FALSE]

Deselect(b) == SetHas(selectedDenominations, ButtonValue(denominations[b])) /\ Click(b)

NextFormat ==
    \/ \E b \in 1..(MAX_POWER - MIN_POWER + 1) : Deselect(b)
    \/ InputPrice(Text45000)
    \/ BlurPrice

SpecFormat == InitSelected /\ [][NextFormat]_vars

----------------------------------------------------------------------------
(* Properties.                                                             *)

CatalogValues == {2 ^ e : e \in MIN_POWER..MAX_POWER}

\* the value behind button b
ValueOf(b) == ButtonValue(denominations[b])

\* sum of a finite set of integers
RECURSIVE SumSet(_)
SumSet(S) == IF S = {} THEN 0
             ELSE LET x == CHOOSE x \in S : TRUE IN x + SumSet(S \ {x})

\* C1: the Selection never holds more than MAX_SELECTIONS = 4 members.
C1_SelectionAtMostMax == SetSize(selectedDenominations) <= MAX_SELECTIONS

\* C1 witness: the selection is full after the startup fetch set a rate, and
\* a further toggle has been turned down.
C1_Witness ==
    /\ SetSize(selectedDenominations) = MAX_SELECTIONS
    /\ pc = "done" /\ btcUsdRate # JSNull
    /\ toast.type = "warning"

\* C2: a toggle of a non-member while the Selection holds exactly 4 members
\* leaves the Selection, the stored total and the exported value list as
\* they were and raises a warning toast.
C2_RejectedToggleIsNoOp ==
    [][\A b \in ClickedButtons :
         (/\ Click(b)
          /\ ~SetHas(selectedDenominations, ValueOf(b))
          /\ SetSize(selectedDenominations) = MAX_SELECTIONS)
         => /\ selectedDenominations' = selectedDenominations
            /\ totalAmount' = totalAmount
            /\ dom'.msatValues = dom.msatValues
            /\ toast'.show /\ toast'.type = "warning"]_vars

\* C2 witness: the warning is on screen over a full selection whose export
\* lists its four members.
C2_Witness ==
    /\ toast.show /\ toast.type = "warning"
    /\ SetSize(selectedDenominations) = MAX_SELECTIONS
    /\ Len(dom.msatValues) = MAX_SELECTIONS
    /\ totalAmount = SumSet(Members(selectedDenominations))

\* C3: after a toggle of v that the limit did not reject, a second toggle of
\* v that the limit does not reject gives back the members and the stored
\* total from before the first.
C3_ToggleTwiceRestores ==
    [][\A b \in ClickedButtons :
         (Click(b) /\ ~toggleDenomination(Cur, ValueOf(b), btcUsdRate, qrImages).rejected)
         => LET r2 == toggleDenomination(Cur', ValueOf(b), btcUsdRate', qrImages') IN
            ~r2.rejected => /\ Members(r2.set) = Members(selectedDenominations)
                            /\ r2.total = totalAmount]_vars

\* C3 witness: a selection of three from which toggling the member inserted
\* first twice goes through a smaller selection and comes back to the same
\* members (in another insertion order).
C3_Witness ==
    /\ SetSize(selectedDenominations) = 3
    /\ LET v  == selectedDenominations[1]
           r1 == toggleDenomination(Cur, v, btcUsdRate, qrImages)
           r2 == toggleDenomination(r1, v, btcUsdRate, qrImages)
       IN  /\ ~r1.rejected /\ ~r2.rejected
           /\ SetSize(r1.set) = 2
           /\ r2.set # selectedDenominations
           /\ Members(r2.set) = Members(selectedDenominations)

\* C4: between handlers the stored total is the sum of the members of the
\* Selection, and 0 when the Selection is empty.
C4_TotalIsSum ==
    /\ totalAmount = SumSet(Members(selectedDenominations))
    /\ selectedDenominations = <<>> => totalAmount = 0

\* C4 witness: three members, the largest denomination among them, after the
\* startup render.
C4_Witness ==
    /\ pc = "done"
    /\ SetSize(selectedDenominations) = 3
    /\ totalAmount > 2 ^ MAX_POWER

\* C5: every member of the Selection is a catalog value 2^e, e in 10..29,
\* and no value is in the Selection twice.
C5_MembersInCatalog ==
    /\ \A i \in 1..Len(selectedDenominations) : selectedDenominations[i] \in CatalogValues
    /\ \A i, j \in 1..Len(selectedDenominations) :
         i # j => selectedDenominations[i] # selectedDenominations[j]

\* C5 witness: a full selection holding the smallest and the largest value.
C5_Witness ==
    /\ SetSize(selectedDenominations) = MAX_SELECTIONS
    /\ 2 ^ MIN_POWER \in Members(selectedDenominations)
    /\ 2 ^ MAX_POWER \in Members(selectedDenominations)

\* C6: generateDenominations returns 20 entries, the k-th with power 9 + k
\* and value 2^(9 + k), the values strictly increasing.
C6_CatalogIsPowersOfTwo ==
    pc # "loading" =>
      /\ Len(denominations) = 20
      /\ \A k \in 1..Len(denominations) :
           /\ denominations[k].power = 9 + k
           /\ denominations[k].value = 2 ^ (9 + k)
      /\ \A k \in 1..(Len(denominations) - 1) :
           denominations[k].value < denominations[k + 1].value

\* C6 witness: the catalog has been generated and its last button is selected.
C6_Witness ==
    /\ pc # "loading"
    /\ Len(denominations) > 0
    /\ SetHas(selectedDenominations, denominations[Len(denominations)].value)

\* a call of fetchBtcPrice completes in this step and returns null
FetchCallFails ==
    \/ StartupFetchFails
    \/ \E atJson \in BOOLEAN : RefreshFetchFails(atJson)
    \/ \E data \in AllBodies :
         /\ StartupJsonResolves(data) \/ RefreshJsonResolves(data)
         /\ fetchBtcPriceTail(data, btcUsdRate, priceInput).ret = JSNull

\* C7: a call of fetchBtcPrice that fails returns null and leaves the
\* ExchangeRate as it was before the call.
C7_FailedFetchKeepsRate ==
    [][FetchCallFails => btcUsdRate' = btcUsdRate]_vars

\* C8: the ExchangeRate is absent or a positive real number.
C8_RateAbsentOrPositive ==
    \/ btcUsdRate \in {JSNull, JSUndefined}
    \/ btcUsdRate.t = "number" /\ btcUsdRate.n > 0

\* the price handler runs in this step on the text
PriceHandlerRuns(text) == InputPrice(text) \/ (BlurPrice /\ priceInput = text)

\* the text is a valid manual rate: it parses to a number greater than 0
ValidRate(text) == ~isNaN(parseFloat(text)) /\ GreaterThanZero(parseFloat(text))

\* C9 as stated: a text that does not parse or parses to a value <= 0 leaves
\* the ExchangeRate unchanged and the call reports failure; any other text
\* replaces the ExchangeRate by the parsed value and the call reports
\* success; "45000" sets 45000 and "abc" leaves the rate untouched.
C9_ManualReportsOutcome ==
    [][\A text \in AllTexts \cup {priceInput} :
         PriceHandlerRuns(text) =>
           /\ IF ValidRate(text)
              THEN /\ btcUsdRate' = parseFloat(text)
                   /\ updateBtcPriceFromInput(text, btcUsdRate).ret = JSTrue
              ELSE /\ btcUsdRate' = btcUsdRate
                   /\ updateBtcPriceFromInput(text, btcUsdRate).ret = JSFalse
           /\ text = Text45000 => btcUsdRate' = JSNum(45000 * 1000)
           /\ text = TextAbc => btcUsdRate' = btcUsdRate]_vars

\* C9 amended: a text that does not parse or parses to a value <= 0 leaves
\* the ExchangeRate and the display unchanged; any other text replaces the
\* ExchangeRate by the parsed value and refreshes the display; the call
\* returns nothing (undefined) either way; "45000" sets 45000 and "abc"
\* leaves the rate untouched.
C9_ManualSetsOrIgnores ==
    [][\A text \in AllTexts \cup {priceInput} :
         PriceHandlerRuns(text) =>
           /\ IF ValidRate(text)
              THEN /\ btcUsdRate' = parseFloat(text)
                   /\ dom' = updateTotalDom(dom, selectedDenominations, btcUsdRate')
              ELSE /\ btcUsdRate' = btcUsdRate
                   /\ dom' = dom
           /\ updateBtcPriceFromInput(text, btcUsdRate).ret = JSUndefined
           /\ text = Text45000 => btcUsdRate' = JSNum(45000 * 1000)
           /\ text = TextAbc => btcUsdRate' = btcUsdRate]_vars

\* C9 witness: "abc" has been typed over a rate of 45000 set by hand, and
\* the rate is still 45000.
C9_Witness ==
    /\ priceInput = TextAbc
    /\ btcUsdRate = JSNum(45000 * 1000)
    /\ lastSet = JSNum(45000 * 1000)

\* C10: the ExchangeRate is the value supplied by the latest successful set
\* (a fetch that returned a rate, or a valid manual entry); failed
\* operations since then have not altered it.
C10_LatestSuccessfulSetWins ==
    lastSet # NoSet => btcUsdRate = lastSet

\* the positions of initializeApp, in program order
StartupOrder == <<"loading", "preload", "awaitFetch", "awaitJson", "done">>

PositionOf(p) == CHOOSE k \in 1..Len(StartupOrder) : StartupOrder[k] = p

\* C11: startup ordering.  initializeApp only moves forward through its
\* positions; once it has started all five image requests are issued; the
\* startup rate fetch is in flight or over only when the preload aggregate
\* has settled, and while the aggregate is pending neither the rate nor the
\* page is touched; before the startup fetch has settled the page is written
\* only by a user's handler, and the step that settles the fetch performs
\* the startup render (updateTotal and updateQRCode); a rejected aggregate
\* never leaves initializeApp waiting at the preload.
C11_StartupOrdering ==
    [][ /\ PositionOf(pc) <= PositionOf(pc')
        /\ pc = "loading" =>
               /\ \A i \in ImageKeys : imgState[i] = "idle"
               /\ preloadAll = "none"
        /\ pc' # "loading" => \A i \in ImageKeys : imgState'[i] # "idle"
        /\ pc' = "preload" =>
               /\ preloadAll' = "pending"
               /\ btcUsdRate' = JSNull /\ dom' = dom /\ refreshCalls' = refreshCalls
        /\ pc' \in {"awaitFetch", "awaitJson", "done"} =>
               preloadAll' \in {"fulfilled", "rejected"}
        /\ (pc' # "done" /\ dom' # dom) =>
               \/ selectedDenominations' # selectedDenominations
               \/ priceInput' # priceInput
        /\ (pc # "done" /\ pc' = "done") =>
               /\ pc \in {"awaitFetch", "awaitJson"}
               /\ dom' = updateQRCodeDom(
                             updateTotalDom(dom, selectedDenominations, btcUsdRate'),
                             selectedDenominations, qrImages)
        /\ preloadAll' = "rejected" => pc' # "preload"
      ]_vars

\* C11 witness: the preload failed with one image loaded, the startup fetch
\* has settled and the startup render has drawn the empty selection.
C11_Witness ==
    /\ preloadAll = "rejected"
    /\ \E i \in ImageKeys : imgState[i] = "loaded"
    /\ pc = "done"
    /\ dom.qrInfo = 0 /\ dom.selectedCount = 0

\* C12: the image preload fails fast but keeps successes.  The aggregate
\* rejects in the very step in which a load errors while it is pending,
\* whatever the other requests are doing, and once settled it stays as it
\* is; every image that has loaded, before or after that, is in the cache
\* under its own key; an entry of the cache is never removed or replaced.
C12_PreloadFailFast ==
    [][ /\ \A i \in ImageKeys :
              (preloadAll = "pending" /\ imgState[i] = "pending" /\ imgState'[i] = "error")
              => preloadAll' = "rejected"
        /\ preloadAll \in {"fulfilled", "rejected"} => preloadAll' = preloadAll
        /\ \A i \in ImageKeys :
              imgState'[i] = "loaded" => (i \in DOMAIN qrImages' /\ qrImages'[i] = i)
        /\ \A k \in DOMAIN qrImages :
              k \in DOMAIN qrImages' /\ qrImages'[k] = qrImages[k]
      ]_vars

\* C12 witness: the aggregate has rejected while a request is still pending,
\* one image was cached, and initializeApp has gone on.
C12_Witness ==
    /\ preloadAll = "rejected"
    /\ \E i \in ImageKeys : imgState[i] = "pending"
    /\ \E i \in ImageKeys : imgState[i] = "loaded" /\ i \in DOMAIN qrImages
    /\ pc = "done"

\* updateTotal has written the export field at least once
ExportRendered == dom.placeholder # "html"

\* the list of the members of the set S of integers in ascending order
AscendingListOf(S) ==
    CHOOSE arr \in [1..Cardinality(S) -> S] :
        \A i, j \in 1..Cardinality(S) : i < j => arr[i] < arr[j]

\* text of the decimal numerals of arr with a comma between neighbours
RECURSIVE CommaSeparated(_)
CommaSeparated(arr) ==
    IF Len(arr) = 0 THEN <<>>
    ELSE LET front == CommaSeparated(SubSeq(arr, 1, Len(arr) - 1))
         IN  (IF front = <<>> THEN <<>> ELSE front \o <<",">>) \o NatToText(arr[Len(arr)])

\* C13: once updateTotal has written the export field, it holds the members
\* of the Selection as a comma-joined list in strictly ascending order,
\* whatever the order they were toggled in, with the copy button enabled;
\* when the Selection is empty the field is empty, shows the placeholder
\* 'No denominations selected', and the copy button is disabled.
C13_ExportIsSortedSelection ==
    ExportRendered =>
        IF selectedDenominations = <<>>
        THEN /\ dom.msatText = <<>>
             /\ dom.placeholder = "No denominations selected"
             /\ dom.copyButton = "disabled"
        ELSE /\ dom.msatText = CommaSeparated(AscendingListOf(Members(selectedDenominations)))
             /\ dom.placeholder = ""
             /\ dom.copyButton = "enabled"

\* C13 witness: three members were toggled in, the largest first, and the
\* export lists them.
C13_Witness ==
    /\ ExportRendered
    /\ SetSize(selectedDenominations) = 3
    /\ selectedDenominations[1] > selectedDenominations[2]
    /\ selectedDenominations[1] > selectedDenominations[3]
    /\ dom.msatText # <<>>

\* the success feedback of a copy is on show
CopyFeedbackShown(c, t) ==
    /\ c.label = "Copied!"
    /\ t = showToast("Values copied to clipboard!", "success")

\* C14: the copy action always ends with success feedback.  No call of
\* copyToClipboard ends with an uncaught error; a call on a non-empty export
\* whose navigator.clipboard is missing runs the legacy copy and shows the
\* success feedback; a clipboard write that settles, fulfilled or rejected,
\* shows the success feedback, the rejected one after the legacy copy.
C14_CopyEndsWithFeedback ==
    [][ /\ ~copy'.uncaught
        /\ \A api \in {"available", "missing"} :
              (ClickCopy(api) /\ dom.msatText # <<>> /\ api = "missing")
              => (copy'.legacy /\ CopyFeedbackShown(copy', toast'))
        /\ \A how \in {"fulfilled", "rejected"} :
              ClipboardWriteSettles(how)
              => /\ CopyFeedbackShown(copy', toast')
                 /\ how = "rejected" => copy'.legacy
      ]_vars

\* pairwise coprime moduli whose product exceeds every five-digit list
Moduli == {9973, 9967, 9949, 9941, 9931, 9929}

\* the number the digit list a denotes from position i up, modulo m
RECURSIVE LimbsMod(_, _, _)
LimbsMod(a, i, m) ==
    IF i > Len(a) THEN 0 ELSE (a[i] + Base * LimbsMod(a, i + 1, m)) % m

\* the digit list a denotes the product x * y (Chinese remainders)
IsProduct(a, x, y) ==
    /\ Len(a) = 5
    /\ \A i \in 1..5 : a[i] \in 0..(Base - 1)
    /\ \A m \in Moduli : LimbsMod(a, 1, m) = ((x % m) * (y % m)) % m

\* amounts toFiat is looked at for: 0, the current total, every catalog value
FiatAmounts == {0, totalAmount} \cup CatalogValues

\* C15: for every amount, 0 included, msatToUsd returns null when the
\* ExchangeRate is absent (null), and when the rate is present (a number)
\* it returns amount / 100000000000 * rate, i.e. amount * n units of
\* 10^-14 dollars for a rate of n thousandths.
C15_ToFiat ==
    \A a \in FiatAmounts :
        /\ btcUsdRate = JSNull => msatToUsd(a, btcUsdRate) = UsdNull
        /\ btcUsdRate.t = "number" =>
               LET usd == msatToUsd(a, btcUsdRate)
                   n   == IF btcUsdRate.n < 0 THEN 0 - btcUsdRate.n ELSE btcUsdRate.n
               IN  /\ usd.t = "number"
                   /\ usd.scale = 11 + 3
                   /\ IsProduct(usd.limbs, a, n)
                   /\ usd.neg = (btcUsdRate.n < 0)

\* the scale steps as the specification lists them: multiplier 10^exp, symbol
ScaleSteps ==
    { <<0, <<"m", "s", "a", "t">> >>, <<3, <<"s", "a", "t">> >>,
      <<6, <<"k", "s", "a", "t">> >>, <<9, <<"M", "s", "a", "t">> >>,
      <<12, <<"G", "s", "a", "t">> >>, <<15, <<"T", "s", "a", "t">> >> }

\* amount >= 10^exp: the numeral of amount has more than exp digits
Reaches(amount, exp) == amount > 0 /\ Len(NatToText(amount)) > exp

\* the step with the largest multiplier the amount reaches, the base step
\* if it reaches none
LargestStep(amount) ==
    LET fit == {st \in ScaleSteps : Reaches(amount, st[1])}
    IN  IF fit = {} THEN CHOOSE st \in ScaleSteps : st[1] = 0
        ELSE CHOOSE st \in fit : \A other \in fit : other[1] <= st[1]

EndsWith(cs, suffix) ==
    Len(cs) >= Len(suffix) /\ SubSeq(cs, Len(cs) - Len(suffix) + 1, Len(cs)) = suffix

\* text is a rendering in the unit of step st
ShownIn(text, st) == EndsWith(text, <<" ">> \o st[2])

\* amounts formatAmount is looked at for: the boundaries of the steps that
\* fit 31 bits, the current total, every catalog value
FormatAmounts ==
    {0, 1, 999, 1000, 1023, 1024, 999999, 1000000, 999999999, 1000000000, 2147483647}
        \cup {totalAmount} \cup CatalogValues

\* formatAmount uses the largest step the amount reaches, and the total on
\* the page is formatAmount of the current total
UsesLargestStep ==
    /\ \A a \in FormatAmounts : ShownIn(formatAmount(a), LargestStep(a))
    /\ dom.totalText = formatAmount(totalAmount)
    /\ ShownIn(dom.totalText, LargestStep(totalAmount))

MsatStep == CHOOSE st \in ScaleSteps : st[1] = 0

SatStep == CHOOSE st \in ScaleSteps : st[1] = 3

\* C16 as claimed: formatAmount uses the step with the largest multiplier
\* the amount reaches, the base step (msat) when it reaches none, i.e. for
\* 0; 1023 is shown in msat and 1024 in sat.
C16_LargestStepWith1023InMsat ==
    /\ UsesLargestStep
    /\ ShownIn(formatAmount(0), MsatStep)
    /\ ShownIn(formatAmount(1023), MsatStep)
    /\ ShownIn(formatAmount(1024), SatStep)

\* C16: formatAmount uses the step with the largest multiplier the amount
\* reaches, the base step (msat) when it reaches none, i.e. for 0; 999 is
\* shown in msat, and 1000, 1023 and 1024 are shown in sat.
C16_LargestStep ==
    /\ UsesLargestStep
    /\ ShownIn(formatAmount(0), MsatStep)
    /\ ShownIn(formatAmount(999), MsatStep)
    /\ ShownIn(formatAmount(1000), SatStep)
    /\ ShownIn(formatAmount(1023), SatStep)
    /\ ShownIn(formatAmount(1024), SatStep)

\* C16 witness: updateTotal has run on a price input and shows a total of
\* at least 10^9 msat in Msat.
C16_Witness ==
    /\ btcUsdRate # JSNull
    /\ totalAmount >= 10 ^ 9
    /\ dom.totalText = formatAmount(totalAmount)
    /\ EndsWith(dom.totalText, <<" ", "M", "s", "a", "t">>)

\* 1 <= t / m < 999.5 for m = 10^exp
QuotientInRange(t, exp) ==
    /\ Reaches(t, exp)
    /\ LET m == 10 ^ exp IN
       \/ t \div m < 999
       \/ t \div m = 999 /\ 2 * (t % m) < m

\* the rendering has a mantissa without exponent notation
PlainMantissa(text) == \A i \in 1..Len(text) : text[i] \notin {"e", "+"}

\* the step formatAmount chooses for t
ChosenExp(t) == PrefixLoop(t, Len(SI_PREFIXES)).exp

\* C20: for every selection of at most 4 catalog values the total t is 0 or
\* 1 <= t / m < 999.5 for the multiplier m formatAmount chooses, and the
\* total on the page is rendered without exponent notation; the same holds
\* for the value and the label of every button.
C20_QuotientBelowRounding ==
    /\ totalAmount = SumSet(Members(selectedDenominations))
    /\ totalAmount = 0 \/ QuotientInRange(totalAmount, ChosenExp(totalAmount))
    /\ PlainMantissa(dom.totalText)
    /\ \A b \in 1..Len(denominations) :
          /\ QuotientInRange(denominations[b].value, ChosenExp(denominations[b].value))
          /\ PlainMantissa(denominations[b].display)
          /\ denominations[b].display = formatAmount(denominations[b].value)

\* C20 witness: the four values 2^16..2^19 are selected, the total closest
\* below 10^6 msat, and updateTotal has shown it after a price input.
C20_Witness ==
    /\ Members(selectedDenominations) = {2 ^ 16, 2 ^ 17, 2 ^ 18, 2 ^ 19}
    /\ btcUsdRate # JSNull
    /\ dom.totalText = <<"9", "8", "3", " ", "s", "a", "t">>

\* a step in which updateQRCode runs: an accepted toggle or the startup render
UpdateQRCodeRuns ==
    \/ selectedDenominations' # selectedDenominations
    \/ pc # "done" /\ pc' = "done"

\* C17: the cache lookup at render time is best-effort.  Whenever
\* updateQRCode runs, its key k = min(|Selection|, 4) is in 0..4 and equals
\* |Selection|; if the cache holds k the preview takes the cached image's
\* URL, otherwise the path built from k; either way the reference denotes
\* the file of k.
C17_LookupBestEffort ==
    [][ UpdateQRCodeRuns =>
          LET n == SetSize(selectedDenominations')
              k == IF n < 4 THEN n ELSE 4
          IN  /\ k \in 0..4
              /\ k = n
              /\ dom'.qrSrc.key = k
              /\ dom'.qrInfo = n
              /\ k \in DOMAIN qrImages' =>
                     (dom'.qrSrc.from = "cache" /\ dom'.qrSrc.file = qrImages'[k])
              /\ k \notin DOMAIN qrImages' =>
                     (dom'.qrSrc.from = "path" /\ imgState'[k] # "loaded")
              /\ dom'.qrSrc.file = k
      ]_vars

\* C17 witness: with three members selected the preview came from the path,
\* image 3 having failed, while image 2 is cached.
C17_Witness ==
    /\ SetSize(selectedDenominations) = 3
    /\ dom.qrSrc = [key |-> 3, from |-> "path", file |-> 3]
    /\ imgState[3] = "error"
    /\ 2 \in DOMAIN qrImages

\* the three independent state components
SelectionPart == <<selectedDenominations, totalAmount>>

ImageCachePart == <<qrImages, imgState, preloadAll>>

\* C18: frame conditions.  A toggle leaves the ExchangeRate and the
\* ImageCache unchanged: an accepted one changes the Selection, a rejected
\* one raises the warning toast and changes nothing else.  A manual rate
\* input and a completion of the remote fetch, successful or failed, leave
\* the Selection and the ImageCache unchanged: they are the steps that write
\* the rate, the price field or the latest set value, or that settle the
\* startup fetch.  An image load completion, the step that changes the
\* image requests, leaves the Selection and the ExchangeRate unchanged.
\* The Selection toggled while the startup fetch was in flight is the one
\* shown when the fetch settles.
C18_FrameConditions ==
    [][ /\ selectedDenominations' # selectedDenominations
              => UNCHANGED <<btcUsdRate, ImageCachePart>>
        /\ (toast' # toast /\ toast'.type = "warning")
              => UNCHANGED <<SelectionPart, btcUsdRate, ImageCachePart, dom>>
        /\ (btcUsdRate' # btcUsdRate \/ priceInput' # priceInput \/ lastSet' # lastSet)
              => UNCHANGED <<SelectionPart, ImageCachePart>>
        /\ (pc \in {"awaitFetch", "awaitJson"} /\ pc' = "done")
              => /\ UNCHANGED <<selectedDenominations, ImageCachePart>>
                 /\ totalAmount' = SumOfSelection(selectedDenominations)
                 /\ dom'.selectedCount = SetSize(selectedDenominations)
                 /\ dom'.msatValues = SortAsc(selectedDenominations)
        /\ ImageCachePart' # ImageCachePart
              => UNCHANGED <<SelectionPart, btcUsdRate>>
      ]_vars

\* C18 witness: two members are selected, the startup fetch has set the
\* rate, and an image has loaded after the last render, which still shows
\* the path.
C18_Witness ==
    /\ pc = "done"
    /\ SetSize(selectedDenominations) = 2
    /\ btcUsdRate = JSNum(2004)
    /\ dom.qrSrc = [key |-> 2, from |-> "path", file |-> 2]
    /\ 2 \in DOMAIN qrImages
    /\ preloadAll = "rejected"

\* updateTotal has written the fiat element at least once
FiatRendered == dom.usdDisplay # "html"

\* C19: once a handler has rendered, the fiat value is displayed if and only
\* if the Selection is non-empty and the ExchangeRate is present (not null);
\* when displayed it is formatUsd of msatToUsd of the current total at the
\* current rate; with the rate absent it is hidden.
C19_FiatShownIffRatePresent ==
    FiatRendered =>
        /\ dom.usdDisplay = "block"
              <=> (SetSize(selectedDenominations) > 0 /\ btcUsdRate # JSNull)
        /\ dom.usdDisplay = "block"
              => dom.usdAmount = formatUsd(msatToUsd(totalAmount, btcUsdRate))
        /\ btcUsdRate = JSNull => dom.usdDisplay = "none"

====
